---- MODULE Spec2Model ----
(***************************************************************************)
(* lazydjango demo project: the blog and shop schemas (blog/models.py,     *)
(* shop/models.py) as the tables the declarations generate, with the       *)
(* operations the ORM derives from them, and the process configuration     *)
(* (mysite/settings.py) as the module-level code that runs once on import. *)
(***************************************************************************)
EXTENDS Integers, Sequences, FiniteSets, TLC

VARIABLES
    env,        \* os.environ: a partial map, variable name -> string
    loaded,     \* TRUE once mysite.settings has been imported
    settings,   \* the module globals of mysite.settings after the import
    envAtLoad,  \* history: os.environ as it was when the import ran
    posts,      \* blog_post rows,    id -> record
    comments,   \* blog_comment rows, id -> record
    tags,       \* blog_tag rows, id -> record; .posts is the blog_tag_posts join
    products,   \* shop_product rows, id -> record
    orders,     \* shop_order rows,   id -> record
    seq,        \* the id sequence of each table (BigAutoField)
    now,        \* the clock read by auto_now_add
    last        \* the last ORM call: its name, its row and its outcome

configVars == <<env, loaded, settings, envAtLoad>>
storeVars  == <<posts, comments, tags, products, orders, seq, now, last>>
vars       == <<env, loaded, settings, envAtLoad,
                posts, comments, tags, products, orders, seq, now, last>>

(***************************************************************************)
(* mysite/settings.py                                                      *)
(***************************************************************************)

\* The variables the settings module reads, and two it does not read.
ConfigVars == {"POSTGRES_DB", "POSTGRES_USER", "POSTGRES_PASSWORD",
               "POSTGRES_HOST", "POSTGRES_PORT", "REDIS_HOST", "REDIS_PORT"}
OtherVars  == {"SECRET_KEY", "INSTALLED_APPS"}
EnvVars    == ConfigVars \cup OtherVars

\* The value a deployment gives a variable when it sets it.
EnvValue(v) ==
    CASE v = "POSTGRES_DB"       -> "proddb"
      [] v = "POSTGRES_USER"     -> "prod_user"
      [] v = "POSTGRES_PASSWORD" -> "s3cret"
      [] v = "POSTGRES_HOST"     -> "db.internal"
      [] v = "POSTGRES_PORT"     -> "6543"
      [] v = "REDIS_HOST"        -> "cache.internal"
      [] v = "REDIS_PORT"        -> "6380"
      [] v = "SECRET_KEY"        -> "prod-secret"
      [] v = "INSTALLED_APPS"    -> "blog"

\* os.getenv(name, default) with the default that returns nothing at all.
GetenvNoDefault(e, name, default) ==
    IF name \in DOMAIN e THEN e[name] ELSE ""

\* os.getenv(name, default): the value when the variable is set (the empty
\* string included), the default only when it is absent.
getenv(e, name, default) ==
    IF name \in DOMAIN e THEN e[name] ELSE default

INSTALLED_APPS ==
    <<"django.contrib.contenttypes", "django.contrib.auth", "blog", "shop">>

SECRET_KEY == "demo-secret-key-not-for-production"

\* DATABASES with HOST read from the variable of NAME.
DatabasesHostFromDb(e) ==
    [default |->
        [ENGINE       |-> "django.db.backends.postgresql",
         NAME         |-> getenv(e, "POSTGRES_DB", "demodb"),
         USER         |-> getenv(e, "POSTGRES_USER", "demo_user"),
         PASSWORD     |-> getenv(e, "POSTGRES_PASSWORD", "demo_password"),
         HOST         |-> getenv(e, "POSTGRES_DB", "localhost"),
         PORT         |-> getenv(e, "POSTGRES_PORT", "5432"),
         CONN_MAX_AGE |-> 60,
         OPTIONS      |-> [connect_timeout |-> 10]]]

DATABASES(e) ==
    [default |->
        [ENGINE       |-> "django.db.backends.postgresql",
         NAME         |-> getenv(e, "POSTGRES_DB", "demodb"),
         USER         |-> getenv(e, "POSTGRES_USER", "demo_user"),
         PASSWORD     |-> getenv(e, "POSTGRES_PASSWORD", "demo_password"),
         HOST         |-> getenv(e, "POSTGRES_HOST", "localhost"),
         PORT         |-> getenv(e, "POSTGRES_PORT", "5432"),
         CONN_MAX_AGE |-> 60,
         OPTIONS      |-> [connect_timeout |-> 10]]]

\* The f-string of LOCATION.
CacheLocation(host, port) == "redis://" \o host \o ":" \o port \o "/1"

CACHES(e) ==
    [default |->
        [BACKEND  |-> "django_redis.cache.RedisCache",
         LOCATION |-> CacheLocation(getenv(e, "REDIS_HOST", "localhost"),
                                    getenv(e, "REDIS_PORT", "6379")),
         OPTIONS  |-> [CLIENT_CLASS           |-> "django_redis.client.DefaultClient",
                       SOCKET_CONNECT_TIMEOUT |-> 5,
                       SOCKET_TIMEOUT         |-> 5]]]

\* The settings module with SECRET_KEY read from the environment.
SettingsSecretFromEnv(e) ==
    [DEBUG              |-> TRUE,
     ALLOWED_HOSTS      |-> <<"*">>,
     INSTALLED_APPS     |-> INSTALLED_APPS,
     DATABASES          |-> DATABASES(e),
     CACHES             |-> CACHES(e),
     SECRET_KEY         |-> getenv(e, "SECRET_KEY", SECRET_KEY),
     DEFAULT_AUTO_FIELD |-> "django.db.models.BigAutoField"]

\* The module globals the import leaves behind, given the environment it saw.
Settings(e) ==
    [DEBUG              |-> TRUE,
     ALLOWED_HOSTS      |-> <<"*">>,
     INSTALLED_APPS     |-> INSTALLED_APPS,
     DATABASES          |-> DATABASES(e),
     CACHES             |-> CACHES(e),
     SECRET_KEY         |-> SECRET_KEY,
     DEFAULT_AUTO_FIELD |-> "django.db.models.BigAutoField"]

NotLoaded == [DEBUG |-> FALSE]

\* import mysite.settings with the module body run again on every access.
LoadSettingsAgain ==
    /\ loaded' = TRUE
    /\ settings' = Settings(env)
    /\ envAtLoad' = IF loaded THEN envAtLoad ELSE env
    /\ UNCHANGED <<env, storeVars>>

\* import mysite.settings: the module body runs once per process, reading
\* os.environ as it is at that moment.
LoadSettings ==
    /\ ~loaded
    /\ loaded' = TRUE
    /\ settings' = Settings(env)
    /\ envAtLoad' = env
    /\ UNCHANGED <<env, storeVars>>

\* os.environ[v] = value, by the process or its launcher: no line of
\* settings.py runs.
SetEnv(v) ==
    /\ env' = [x \in DOMAIN env \cup {v} |-> IF x = v THEN EnvValue(v) ELSE env[x]]
    /\ UNCHANGED <<loaded, settings, envAtLoad, storeVars>>

\* del os.environ[v]
UnsetEnv(v) ==
    /\ v \in DOMAIN env
    /\ env' = [x \in DOMAIN env \ {v} |-> env[x]]
    /\ UNCHANGED <<loaded, settings, envAtLoad, storeVars>>

EnvOf(S) == [v \in S |-> EnvValue(v)]

InitConfig ==
    /\ env \in {EnvOf(S) : S \in SUBSET EnvVars}
    /\ loaded = FALSE
    /\ settings = NotLoaded
    /\ envAtLoad = EnvOf({})

NextConfig ==
    \/ LoadSettings
    \/ \E v \in EnvVars : SetEnv(v)
    \/ \E v \in EnvVars : UnsetEnv(v)

(***************************************************************************)
(* blog/models.py and shop/models.py                                       *)
(***************************************************************************)

\* Bounds of the model: ids ever drawn (all tables together), and the
\* clock's range.
MaxRows == 3
MaxTime == 1

\* Field limits of the declarations.
TITLE_MAX_LENGTH    == 200
AUTHOR_MAX_LENGTH   == 100
TAG_MAX_LENGTH      == 50
NAME_MAX_LENGTH     == 200
CUSTOMER_MAX_LENGTH == 200
MAX_DIGITS          == 10
DECIMAL_PLACES      == 2
STOCK_DEFAULT       == 0

\* The null reference (ids start at 1).
None == 0

Ids   == 1 .. MaxRows
Times == 0 .. MaxTime

\* The timestamps a caller may put on a new instance before saving it.
GivenDates == {0, MaxTime}

\* Input values. LongTag has 51 characters and LongTitle 201.
LongTag   == "xxxxxxxxxxxxxxxxxxxxxxxxxxxxxxxxxxxxxxxxxxxxxxxxxxx"
LongTitle == "yyyyyyyyyyyyyyyyyyyyyyyyyyyyyyyyyyyyyyyyyyyyyyyyyyyyyyyyyyyyyyyyyyyyyyyyyyyyyyyyyyyyyyyyyyyyyyyyyyyyyyyyyyyyyyyyyyyyyyyyyyyyyyyyyyyyyyyyyyyyyyyyyyyyyyyyyyyyyyyyyyyyyyyyyyyyyyyyyyyyyyyyyyyyyyyyyyyyyyyyy"
Titles    == {"Hello", LongTitle}
Contents  == {"text"}
Authors   == {"ann"}
TagNames  == {"news", "tech", LongTag}
Names     == {"mug"}
Customers == {"bob"}
Stocks    == {STOCK_DEFAULT}

\* A Decimal, as sign, integer part and hundredths.
Dec(neg, whole, frac) == [neg |-> neg, whole |-> whole, frac |-> frac]
Decimals == {Dec(FALSE, 19, 99), Dec(TRUE, 99999999, 99), Dec(FALSE, 100000000, 0)}
IsNegative(d) == d.neg /\ (d.whole > 0 \/ d.frac > 0)

RECURSIVE Pow10(_)
Pow10(n) == IF n = 0 THEN 1 ELSE 10 * Pow10(n - 1)

\* CharField(max_length=n) on a varchar(n) column.
FitsChar(s, n) == Len(s) <= n

\* DecimalField with a sign constraint the declaration does not have.
FitsDecimalNonNegative(d, max_digits, decimal_places) ==
    /\ ~IsNegative(d)
    /\ d.whole < Pow10(max_digits - decimal_places)
    /\ d.frac < Pow10(decimal_places)

\* DecimalField(max_digits, decimal_places): at most max_digits digits, of
\* which decimal_places after the point; no constraint on the sign.
FitsDecimal(d, max_digits, decimal_places) ==
    /\ d.whole < Pow10(max_digits - decimal_places)
    /\ d.frac < Pow10(decimal_places)

Restrict(f, S) == [x \in S |-> f[x]]
Extend(f, k, v) == [x \in DOMAIN f \cup {k} |-> IF x = k THEN v ELSE f[x]]

\* The outcome of an ORM call. id: the row a delete removed, or the reference
\* a refused write carried (None otherwise); rows: the rows the call wrote or
\* removed, dependants included, as Model.delete() counts them.
Result(op, id, result, rows) ==
    [op |-> op, id |-> id, result |-> result, rows |-> rows]

\* Ids drawn from the sequences so far: every sequence starts at 1.
Drawn == seq.post + seq.comment + seq.tag + seq.product + seq.order - 5

\* An INSERT the storage layer refuses: no row changes, but the id is gone.
\* A constraint violation (unique, foreign key, NOT NULL) is found on the row
\* that has already drawn its id, and a sequence gives nothing back; a value
\* that does not fit its column may be turned down before or after the draw.
RefusedInsert(op, table, id, err) ==
    /\ last' = Result(op, id, err, 0)
    /\ \/ /\ Drawn < MaxRows
          /\ seq' = [seq EXCEPT ![table] = @ + 1]
       \/ /\ err = "DataError"
          /\ seq' = seq
    /\ UNCHANGED <<configVars, posts, comments, tags, products, orders, now>>

\* An UPDATE or a join-row write the storage layer refuses: nothing changes.
Refused(op, id, err) ==
    /\ last' = Result(op, id, err, 0)
    /\ UNCHANGED <<configVars, posts, comments, tags, products, orders, seq, now>>

\* The clock moves on.
Tick ==
    /\ now < MaxTime
    /\ now' = now + 1
    /\ UNCHANGED <<configVars, posts, comments, tags, products, orders, seq, last>>

\* DateTimeField(auto_now=True): the clock on every save.
AutoNow(add, value) == now

\* DateTimeField(auto_now_add=True).pre_save: the clock on the INSERT, whatever
\* the instance carried; on a later save, the instance's attribute as it is.
AutoNowAdd(add, value) == IF add THEN now ELSE value

(***************************************************************************)
(* blog.Post                                                               *)
(***************************************************************************)

PostFields == {"title", "content", "author", "published_date", "is_published"}

PostValues(field) ==
    CASE field = "title"          -> Titles
      [] field = "content"        -> Contents
      [] field = "author"         -> Authors
      [] field = "published_date" -> Times
      [] field = "is_published"   -> BOOLEAN

\* What the blog_post table answers to a row.
PostError(r) ==
    IF FitsChar(r.title, TITLE_MAX_LENGTH) /\ FitsChar(r.author, AUTHOR_MAX_LENGTH)
    THEN "ok" ELSE "DataError"

\* Post(...).save() on a new instance; is_published defaults to False.
CreatePost(title, content, author, date, is_published) ==
    LET id == seq.post
        r  == [title          |-> title,
               content        |-> content,
               author         |-> author,
               published_date |-> AutoNowAdd(TRUE, date),
               is_published   |-> is_published]
    IN  IF PostError(r) = "ok"
        THEN /\ Drawn < MaxRows
             /\ posts' = Extend(posts, id, r)
             /\ seq' = [seq EXCEPT !.post = id + 1]
             /\ last' = Result("CreatePost", None, "ok", 1)
             /\ UNCHANGED <<configVars, comments, tags, products, orders, now>>
        ELSE RefusedInsert("CreatePost", "post", None, PostError(r))

\* post.<field> = value; post.save() on a stored Post.
UpdatePost(p, field, value) ==
    /\ p \in DOMAIN posts
    /\ LET a == [posts[p] EXCEPT ![field] = value]
           r == [a EXCEPT !.published_date = AutoNowAdd(FALSE, a.published_date)]
       IN  IF PostError(r) = "ok"
           THEN /\ posts' = [posts EXCEPT ![p] = r]
                /\ last' = Result("UpdatePost", None, "ok", 1)
                /\ UNCHANGED <<configVars, comments, tags, products, orders, seq, now>>
           ELSE Refused("UpdatePost", None, PostError(r))

\* Comment.post with on_delete left without effect on the comments.
CommentsKept(p) == comments

\* Comment.post, on_delete=CASCADE: the comments that survive Post p.
CommentsAfterPostDelete(p) ==
    Restrict(comments, {c \in DOMAIN comments : comments[c].post # p})

\* Tag.posts: the join rows of Post p go with it.
TagsAfterPostDelete(p) ==
    [t \in DOMAIN tags |-> [tags[t] EXCEPT !.posts = @ \ {p}]]

\* post.delete()
DeletePost(p) ==
    /\ p \in DOMAIN posts
    /\ posts' = Restrict(posts, DOMAIN posts \ {p})
    /\ comments' = CommentsAfterPostDelete(p)
    /\ tags' = TagsAfterPostDelete(p)
    /\ last' = Result("DeletePost", p, "ok",
                      1 + Cardinality(DOMAIN comments \ DOMAIN comments')
                        + Cardinality({t \in DOMAIN tags : p \in tags[t].posts}))
    /\ UNCHANGED <<configVars, products, orders, seq, now>>

(***************************************************************************)
(* blog.Comment                                                            *)
(***************************************************************************)

\* A foreign key column with no constraint at all.
RefUnchecked(ref, rows) == "ok"

\* ForeignKey(...): NOT NULL (null defaults to False) and a foreign-key
\* constraint to the referenced table.
RefError(ref, rows) ==
    IF ref = None \/ ref \notin DOMAIN rows THEN "IntegrityError" ELSE "ok"

CommentError(r) ==
    IF ~FitsChar(r.author, AUTHOR_MAX_LENGTH) THEN "DataError"
    ELSE RefError(r.post, posts)

\* Comment(...).save() on a new instance.
CreateComment(post, author, content) ==
    LET id == seq.comment
        r  == [post |-> post, author |-> author, content |-> content]
    IN  IF CommentError(r) = "ok"
        THEN /\ Drawn < MaxRows
             /\ comments' = Extend(comments, id, r)
             /\ seq' = [seq EXCEPT !.comment = id + 1]
             /\ last' = Result("CreateComment", None, "ok", 1)
             /\ UNCHANGED <<configVars, posts, tags, products, orders, now>>
        ELSE RefusedInsert("CreateComment", "comment", post, CommentError(r))

\* comment.post_id = post; comment.save()
UpdateComment(c, post) ==
    /\ c \in DOMAIN comments
    /\ LET r == [comments[c] EXCEPT !.post = post]
       IN  IF CommentError(r) = "ok"
           THEN /\ comments' = [comments EXCEPT ![c] = r]
                /\ last' = Result("UpdateComment", None, "ok", 1)
                /\ UNCHANGED <<configVars, posts, tags, products, orders, seq, now>>
           ELSE Refused("UpdateComment", post, CommentError(r))

\* comment.delete()
DeleteComment(c) ==
    /\ c \in DOMAIN comments
    /\ comments' = Restrict(comments, DOMAIN comments \ {c})
    /\ last' = Result("DeleteComment", c, "ok", 1)
    /\ UNCHANGED <<configVars, posts, tags, products, orders, seq, now>>

(***************************************************************************)
(* blog.Tag                                                                *)
(***************************************************************************)

\* Tag.name without the unique index.
TagErrorNotUnique(name, self) ==
    IF ~FitsChar(name, TAG_MAX_LENGTH) THEN "DataError" ELSE "ok"

\* Tag.name: varchar(50) with a unique index; `self` is the row being
\* written (None on an INSERT).
TagError(name, self) ==
    IF ~FitsChar(name, TAG_MAX_LENGTH) THEN "DataError"
    ELSE IF \E t \in DOMAIN tags : t # self /\ tags[t].name = name
         THEN "IntegrityError"
         ELSE "ok"

\* Tag(name=name).save() on a new instance: the join starts empty.
CreateTag(name) ==
    LET id == seq.tag
    IN  IF TagError(name, None) = "ok"
        THEN /\ Drawn < MaxRows
             /\ tags' = Extend(tags, id, [name |-> name, posts |-> {}])
             /\ seq' = [seq EXCEPT !.tag = id + 1]
             /\ last' = Result("CreateTag", None, "ok", 1)
             /\ UNCHANGED <<configVars, posts, comments, products, orders, now>>
        ELSE RefusedInsert("CreateTag", "tag", None, TagError(name, None))

\* tag.name = name; tag.save()
UpdateTag(t, name) ==
    /\ t \in DOMAIN tags
    /\ IF TagError(name, t) = "ok"
       THEN /\ tags' = [tags EXCEPT ![t].name = name]
            /\ last' = Result("UpdateTag", None, "ok", 1)
            /\ UNCHANGED <<configVars, posts, comments, products, orders, seq, now>>
       ELSE Refused("UpdateTag", None, TagError(name, t))

\* tag.posts.add(p): a join row, with a foreign key to each side.
TagAddPost(t, p) ==
    /\ t \in DOMAIN tags
    /\ IF RefError(p, posts) = "ok"
       THEN /\ tags' = [tags EXCEPT ![t].posts = @ \cup {p}]
            /\ last' = Result("TagAddPost", None, "ok", 1)
            /\ UNCHANGED <<configVars, posts, comments, products, orders, seq, now>>
       ELSE Refused("TagAddPost", p, RefError(p, posts))

\* tag.posts.remove(p)
TagRemovePost(t, p) ==
    /\ t \in DOMAIN tags
    /\ p \in tags[t].posts
    /\ tags' = [tags EXCEPT ![t].posts = @ \ {p}]
    /\ last' = Result("TagRemovePost", None, "ok", 1)
    /\ UNCHANGED <<configVars, posts, comments, products, orders, seq, now>>

\* tag.delete(): the tag and its join rows.
DeleteTag(t) ==
    /\ t \in DOMAIN tags
    /\ tags' = Restrict(tags, DOMAIN tags \ {t})
    /\ last' = Result("DeleteTag", t, "ok", 1 + Cardinality(tags[t].posts))
    /\ UNCHANGED <<configVars, posts, comments, products, orders, seq, now>>

(***************************************************************************)
(* shop.Product                                                            *)
(***************************************************************************)

ProductError(r) ==
    IF FitsChar(r.name, NAME_MAX_LENGTH)
       /\ FitsDecimal(r.price, MAX_DIGITS, DECIMAL_PLACES)
    THEN "ok" ELSE "DataError"

\* Product(...).save() on a new instance; stock defaults to 0.
CreateProduct(name, description, price, stock) ==
    LET id == seq.product
        r  == [name |-> name, description |-> description,
               price |-> price, stock |-> stock]
    IN  IF ProductError(r) = "ok"
        THEN /\ Drawn < MaxRows
             /\ products' = Extend(products, id, r)
             /\ seq' = [seq EXCEPT !.product = id + 1]
             /\ last' = Result("CreateProduct", None, "ok", 1)
             /\ UNCHANGED <<configVars, posts, comments, tags, orders, now>>
        ELSE RefusedInsert("CreateProduct", "product", None, ProductError(r))

\* product.price = price; product.save()
UpdateProduct(p, price) ==
    /\ p \in DOMAIN products
    /\ LET r == [products[p] EXCEPT !.price = price]
       IN  IF ProductError(r) = "ok"
           THEN /\ products' = [products EXCEPT ![p] = r]
                /\ last' = Result("UpdateProduct", None, "ok", 1)
                /\ UNCHANGED <<configVars, posts, comments, tags, orders, seq, now>>
           ELSE Refused("UpdateProduct", None, ProductError(r))

\* Order.product with on_delete left without effect on the orders.
OrdersKept(p) == orders

\* Order.product, on_delete=CASCADE: the orders that survive Product p.
OrdersAfterProductDelete(p) ==
    Restrict(orders, {o \in DOMAIN orders : orders[o].product # p})

\* product.delete()
DeleteProduct(p) ==
    /\ p \in DOMAIN products
    /\ products' = Restrict(products, DOMAIN products \ {p})
    /\ orders' = OrdersAfterProductDelete(p)
    /\ last' = Result("DeleteProduct", p, "ok",
                      1 + Cardinality(DOMAIN orders \ DOMAIN orders'))
    /\ UNCHANGED <<configVars, posts, comments, tags, seq, now>>

(***************************************************************************)
(* shop.Order                                                              *)
(***************************************************************************)

OrderFields == {"customer_name", "order_date", "total", "product"}

OrderValues(field) ==
    CASE field = "customer_name" -> Customers
      [] field = "order_date"    -> Times
      [] field = "total"         -> Decimals
      [] field = "product"       -> Ids \cup {None}

OrderError(r) ==
    IF ~(FitsChar(r.customer_name, CUSTOMER_MAX_LENGTH)
         /\ FitsDecimal(r.total, MAX_DIGITS, DECIMAL_PLACES))
    THEN "DataError"
    ELSE RefError(r.product, products)

\* Order(...).save() on a new instance.
CreateOrder(customer_name, date, total, product) ==
    LET id == seq.order
        r  == [customer_name |-> customer_name,
               order_date    |-> AutoNowAdd(TRUE, date),
               total         |-> total,
               product       |-> product]
    IN  IF OrderError(r) = "ok"
        THEN /\ Drawn < MaxRows
             /\ orders' = Extend(orders, id, r)
             /\ seq' = [seq EXCEPT !.order = id + 1]
             /\ last' = Result("CreateOrder", None, "ok", 1)
             /\ UNCHANGED <<configVars, posts, comments, tags, products, now>>
        ELSE RefusedInsert("CreateOrder", "order", product, OrderError(r))

\* order.<field> = value; order.save() on a stored Order.
UpdateOrder(o, field, value) ==
    /\ o \in DOMAIN orders
    /\ LET a == [orders[o] EXCEPT ![field] = value]
           r == [a EXCEPT !.order_date = AutoNowAdd(FALSE, a.order_date)]
       IN  IF OrderError(r) = "ok"
           THEN /\ orders' = [orders EXCEPT ![o] = r]
                /\ last' = Result("UpdateOrder", None, "ok", 1)
                /\ UNCHANGED <<configVars, posts, comments, tags, products, seq, now>>
           ELSE Refused("UpdateOrder", r.product, OrderError(r))

\* order.delete()
DeleteOrder(o) ==
    /\ o \in DOMAIN orders
    /\ orders' = Restrict(orders, DOMAIN orders \ {o})
    /\ last' = Result("DeleteOrder", o, "ok", 1)
    /\ UNCHANGED <<configVars, posts, comments, tags, products, seq, now>>

(***************************************************************************)
(* Specifications                                                          *)
(***************************************************************************)

NoRows == [x \in {} |-> None]

InitStore ==
    /\ posts = NoRows
    /\ comments = NoRows
    /\ tags = NoRows
    /\ products = NoRows
    /\ orders = NoRows
    /\ seq = [post |-> 1, comment |-> 1, tag |-> 1, product |-> 1, order |-> 1]
    /\ now = 0
    /\ last = Result("none", None, "ok", 0)

\* A process with its settings imported under an empty environment.
ConfigLoaded ==
    /\ env = EnvOf({})
    /\ loaded = TRUE
    /\ settings = Settings(env)
    /\ envAtLoad = env

\* The process at its start, before it has imported its settings: any
\* environment, an empty database.
InitProcess == InitConfig /\ InitStore

\* The running application: settings imported, an empty database.
Init == ConfigLoaded /\ InitStore

\* The blog app: creations and deletions of Posts, Comments and Tags, and
\* the writes that touch a reference or a unique column.
NextBlog ==
    \/ \E t \in Titles, c \in Contents, a \in Authors, d \in GivenDates, b \in BOOLEAN :
         CreatePost(t, c, a, d, b)
    \/ \E p \in Ids : DeletePost(p)
    \/ \E p \in Ids \cup {None}, a \in Authors, c \in Contents : CreateComment(p, a, c)
    \/ \E c \in Ids, p \in Ids \cup {None} : UpdateComment(c, p)
    \/ \E c \in Ids : DeleteComment(c)
    \/ \E n \in TagNames : CreateTag(n)
    \/ \E t \in Ids, n \in TagNames : UpdateTag(t, n)
    \/ \E t \in Ids, p \in Ids : TagAddPost(t, p)
    \/ \E t \in Ids, p \in Ids : TagRemovePost(t, p)
    \/ \E t \in Ids : DeleteTag(t)


\* The shop app: creations, deletions and price changes.
NextShop ==
    \/ \E n \in Names, d \in Contents, p \in Decimals, s \in Stocks :
         CreateProduct(n, d, p, s)
    \/ \E p \in Ids, d \in Decimals : UpdateProduct(p, d)
    \/ \E p \in Ids : DeleteProduct(p)
    \/ \E c \in Customers, d \in GivenDates, t \in Decimals, p \in Ids \cup {None} :
         CreateOrder(c, d, t, p)
    \/ \E o \in Ids : DeleteOrder(o)


\* The timestamped rows: Posts and Orders written again after their creation.
NextDates ==
    \/ Tick
    \/ \E t \in Titles, c \in Contents, a \in Authors, d \in GivenDates :
         CreatePost(t, c, a, d, FALSE)
    \/ \E p \in Ids, f \in PostFields : \E v \in PostValues(f) : UpdatePost(p, f, v)
    \/ \E n \in Names, d \in Contents, s \in Stocks :
         CreateProduct(n, d, Dec(FALSE, 19, 99), s)
    \/ \E c \in Customers, d \in GivenDates, p \in Ids :
         CreateOrder(c, d, Dec(FALSE, 19, 99), p)
    \/ \E o \in Ids, f \in OrderFields : \E v \in OrderValues(f) : UpdateOrder(o, f, v)


\* Creations and deletions in both apps, and the write that re-points a
\* Comment.
NextStore ==
    \/ \E t \in Titles, c \in Contents, a \in Authors, d \in GivenDates, b \in BOOLEAN :
         CreatePost(t, c, a, d, b)
    \/ \E p \in Ids : DeletePost(p)
    \/ \E p \in Ids \cup {None}, a \in Authors, c \in Contents : CreateComment(p, a, c)
    \/ \E c \in Ids, p \in Ids \cup {None} : UpdateComment(c, p)
    \/ \E c \in Ids : DeleteComment(c)
    \/ \E n \in TagNames : CreateTag(n)
    \/ \E t \in Ids, p \in Ids : TagAddPost(t, p)
    \/ \E t \in Ids : DeleteTag(t)
    \/ \E n \in Names, d \in Contents, p \in Decimals, s \in Stocks :
         CreateProduct(n, d, p, s)
    \/ \E p \in Ids : DeleteProduct(p)
    \/ \E c \in Customers, d \in GivenDates, t \in Decimals, p \in Ids \cup {None} :
         CreateOrder(c, d, t, p)
    \/ \E o \in Ids : DeleteOrder(o)


Spec       == Init /\ [][NextStore]_vars
SpecConfig == InitProcess /\ [][NextConfig]_vars
SpecBlog   == Init /\ [][NextBlog]_vars
SpecShop   == Init /\ [][NextShop]_vars
SpecDates  == Init /\ [][NextDates]_vars

(***************************************************************************)
(* Properties                                                              *)
(***************************************************************************)

\* C1: right after a Post P is deleted, P is gone, no Comment references P
\* and no Tag's post set contains P.
C1_PostDeleteCascades ==
    (last.op = "DeletePost" /\ last.result = "ok") =>
        /\ last.id \notin DOMAIN posts
        /\ \A c \in DOMAIN comments : comments[c].post # last.id
        /\ \A t \in DOMAIN tags : last.id \notin tags[t].posts

\* C1 witness: a delete of a Post that took a Comment and a join row with it.
C1_Witness ==
    /\ last.op = "DeletePost"
    /\ last.result = "ok"
    /\ last.rows >= 3
    /\ seq.comment = 2
    /\ Cardinality(DOMAIN tags) = 1

\* C2: right after a Product P is deleted, P is gone and no Order references P.
C2_ProductDeleteCascades ==
    (last.op = "DeleteProduct" /\ last.result = "ok") =>
        /\ last.id \notin DOMAIN products
        /\ \A o \in DOMAIN orders : orders[o].product # last.id

\* C2 witness: a delete of a Product that took two Orders with it.
C2_Witness ==
    /\ last.op = "DeleteProduct"
    /\ last.result = "ok"
    /\ last.rows >= 3
    /\ seq.order > 2

TagNamesDistinct ==
    \A t1, t2 \in DOMAIN tags : t1 # t2 => tags[t1].name # tags[t2].name

DuplicateTagRefused ==
    last'.op = "CreateTag" =>
        \A n \in TagNames :
            (CreateTag(n) /\ \E t \in DOMAIN tags : tags[t].name = n)
                => (last'.result = "IntegrityError" /\ tags' = tags)

\* C3: an insert of a Tag whose name a stored Tag has is refused with an
\* integrity (uniqueness) error and leaves the tags as they were; no two stored
\* Tags ever have the same name.
C3_TagNameUnique == []TagNamesDistinct /\ [][DuplicateTagRefused]_vars

\* C3 witness: a refused insert of a second Tag with a stored name.
C3_Witness ==
    /\ last.op = "CreateTag"
    /\ last.result = "IntegrityError"
    /\ tags # NoRows

DatesKept ==
    /\ \A p \in DOMAIN posts \cap DOMAIN posts' :
          posts'[p].published_date = posts[p].published_date
    /\ \A o \in DOMAIN orders \cap DOMAIN orders' :
          orders'[o].order_date = orders[o].order_date

\* C4 as stated: no operation changes the published_date of a stored Post or
\* the order_date of a stored Order: each keeps the value of its creation.
C4_DateNeverChanges == [][DatesKept]_vars

DateSetOnInsert ==
    /\ \A p \in DOMAIN posts' \ DOMAIN posts : posts'[p].published_date = now
    /\ \A o \in DOMAIN orders' \ DOMAIN orders : orders'[o].order_date = now

DateChangesOnlyWhenAssigned ==
    /\ \A p \in DOMAIN posts \cap DOMAIN posts' :
          posts'[p].published_date # posts[p].published_date
              => \E v \in Times : UpdatePost(p, "published_date", v)
    /\ \A o \in DOMAIN orders \cap DOMAIN orders' :
          orders'[o].order_date # orders[o].order_date
              => \E v \in Times : UpdateOrder(o, "order_date", v)

\* C4 amended: published_date (order_date) is set on the insert to the clock,
\* whatever the instance carried, and a later save changes it only when the
\* caller assigned that very field; a save after an update of any other field
\* leaves it as it was.
C4_DateSetOnceUnlessAssigned ==
    [][DateSetOnInsert /\ DateChangesOnlyWhenAssigned]_vars

\* C4 witness: a Post and an Order, each created before the clock's present
\* reading and saved again with another field changed (is_published, total),
\* the Order last.
C4_Witness ==
    /\ \E p \in DOMAIN posts :
          posts[p].is_published /\ posts[p].published_date < now
    /\ \E o \in DOMAIN orders :
          IsNegative(orders[o].total) /\ orders[o].order_date < now
    /\ last.op = "UpdateOrder"
    /\ last.result = "ok"

\* The options of the configuration surface, and their documented defaults.
DbVars == {"POSTGRES_DB", "POSTGRES_USER", "POSTGRES_PASSWORD",
           "POSTGRES_HOST", "POSTGRES_PORT"}

DbOption(v) ==
    CASE v = "POSTGRES_DB"       -> settings.DATABASES.default.NAME
      [] v = "POSTGRES_USER"     -> settings.DATABASES.default.USER
      [] v = "POSTGRES_PASSWORD" -> settings.DATABASES.default.PASSWORD
      [] v = "POSTGRES_HOST"     -> settings.DATABASES.default.HOST
      [] v = "POSTGRES_PORT"     -> settings.DATABASES.default.PORT

DefaultOf(v) ==
    CASE v = "POSTGRES_DB"       -> "demodb"
      [] v = "POSTGRES_USER"     -> "demo_user"
      [] v = "POSTGRES_PASSWORD" -> "demo_password"
      [] v = "POSTGRES_HOST"     -> "localhost"
      [] v = "POSTGRES_PORT"     -> "5432"
      [] v = "REDIS_HOST"        -> "localhost"
      [] v = "REDIS_PORT"        -> "6379"

\* The value an option is to have when the set S of variables was set.
Want(v, S) == IF v \in S THEN EnvValue(v) ELSE DefaultOf(v)

CacheOption == settings.CACHES.default.LOCATION

SetAtLoad == DOMAIN envAtLoad \cap ConfigVars

\* C5: whatever subset of the seven variables is absent, the load goes through
\* and each absent variable's option is its literal default; with none set the
\* database is demodb on localhost:5432 and the cache localhost:6379.
C5_AbsentGivesDefault ==
    /\ ~loaded => ENABLED LoadSettings
    /\ loaded =>
        /\ \A v \in DbVars \ SetAtLoad : DbOption(v) = DefaultOf(v)
        /\ "REDIS_HOST" \notin SetAtLoad =>
              \E port \in {"6379", EnvValue("REDIS_PORT")} :
                  CacheOption = "redis://localhost:" \o port \o "/1"
        /\ "REDIS_PORT" \notin SetAtLoad =>
              \E host \in {"localhost", EnvValue("REDIS_HOST")} :
                  CacheOption = "redis://" \o host \o ":6379/1"
        /\ SetAtLoad = {} =>
              /\ settings.DATABASES.default.NAME = "demodb"
              /\ settings.DATABASES.default.HOST = "localhost"
              /\ settings.DATABASES.default.PORT = "5432"
              /\ CacheOption = "redis://localhost:6379/1"

\* C5 witness: the settings loaded with none of the seven variables set.
C5_Witness == loaded /\ SetAtLoad = {} /\ settings.DATABASES.default.NAME = "demodb"

\* C6: with exactly one of the seven variables set, the option it names has
\* the variable's value and every other option has its default.
C6_OneVariableOneOption ==
    (loaded /\ Cardinality(SetAtLoad) = 1) =>
        /\ \A v \in DbVars : DbOption(v) = Want(v, SetAtLoad)
        /\ CacheOption = "redis://" \o Want("REDIS_HOST", SetAtLoad) \o ":"
                             \o Want("REDIS_PORT", SetAtLoad) \o "/1"

\* C6 witness: loaded with POSTGRES_HOST=db.internal and nothing else.
C6_Witness ==
    /\ loaded
    /\ SetAtLoad = {"POSTGRES_HOST"}
    /\ envAtLoad["POSTGRES_HOST"] = "db.internal"
    /\ settings.DATABASES.default.HOST = "db.internal"

\* C7 as stated: some environment variable, when set, gives the secret key
\* its value, and some variable gives the enabled components list.
C7_SecretAndAppsFromEnv ==
    loaded =>
        /\ \E v \in EnvVars :
              v \in DOMAIN envAtLoad => settings.SECRET_KEY = envAtLoad[v]
        /\ \E v \in EnvVars :
              v \in DOMAIN envAtLoad => settings.INSTALLED_APPS = <<envAtLoad[v]>>

\* C7 amended: the secret key and the enabled components list are literals of
\* the settings module; no environment variable changes them.
C7_SecretAndAppsLiteral ==
    loaded =>
        /\ settings.SECRET_KEY = "demo-secret-key-not-for-production"
        /\ settings.INSTALLED_APPS =
              <<"django.contrib.contenttypes", "django.contrib.auth", "blog", "shop">>

\* C7 witness: loaded with SECRET_KEY and INSTALLED_APPS set in the environment.
C7_Witness ==
    /\ loaded
    /\ {"SECRET_KEY", "INSTALLED_APPS"} \subseteq DOMAIN envAtLoad
    /\ settings.SECRET_KEY # envAtLoad["SECRET_KEY"]

\* C8: once the settings are loaded, no change of the environment changes a
\* resolved database or cache option, and the load never runs again.
C8_EnvReadAtLoadOnly ==
    [][loaded => /\ loaded'
                 /\ envAtLoad' = envAtLoad
                 /\ settings'.DATABASES = settings.DATABASES
                 /\ settings'.CACHES = settings.CACHES]_vars

\* C8 witness: POSTGRES_HOST and REDIS_PORT set after a load that saw neither,
\* the options still at their defaults.
C8_Witness ==
    /\ loaded
    /\ {"POSTGRES_HOST", "REDIS_PORT"} \cap DOMAIN envAtLoad = {}
    /\ {"POSTGRES_HOST", "REDIS_PORT"} \subseteq DOMAIN env
    /\ settings.DATABASES.default.HOST = "localhost"
    /\ CacheOption = "redis://localhost:6379/1"

ReferencesValid ==
    /\ \A c \in DOMAIN comments :
          comments[c].post # None /\ comments[c].post \in DOMAIN posts
    /\ \A o \in DOMAIN orders :
          orders[o].product # None /\ orders[o].product \in DOMAIN products
    /\ \A t \in DOMAIN tags : tags[t].posts \subseteq DOMAIN posts

\* A step that stores a new Comment (Order) does so for a Post (Product)
\* stored when the call is made, and a call refused for its reference
\* stores nothing.
DanglingInsertRefused ==
    /\ \A c \in DOMAIN comments' \ DOMAIN comments :
          comments'[c].post # None /\ comments'[c].post \in DOMAIN posts
    /\ \A o \in DOMAIN orders' \ DOMAIN orders :
          orders'[o].product # None /\ orders'[o].product \in DOMAIN products
    /\ (last'.op \in {"CreateComment", "CreateOrder"} /\ last'.result = "IntegrityError")
          => (comments' = comments /\ orders' = orders)

\* C9: in every reachable state each Comment's post and each Order's product
\* is non-null and stored, and each member of a Tag's post set is a stored
\* Post; an insert of a Comment or Order that references a missing row is
\* refused.
C9_ReferentialIntegrity == []ReferencesValid /\ [][DanglingInsertRefused]_vars

\* C9 witness: a Comment is stored, and the last call, an insert of an Order
\* for a Product that is not stored, was refused.
C9_Witness ==
    /\ comments # NoRows
    /\ last.op = "CreateOrder"
    /\ last.result = "IntegrityError"
    /\ last.id \in Ids \ DOMAIN products
    /\ orders = NoRows

NegativeAmountsStored ==
    /\ last'.op = "CreateProduct" =>
          \A n \in Names, d \in Contents, p \in Decimals, s \in Stocks :
              (CreateProduct(n, d, p, s) /\ p.whole <= 99999999 /\ p.frac <= 99)
                  => (last'.result = "ok" /\ products'[seq.product].price = p)
    /\ last'.op = "CreateOrder" =>
          \A c \in Customers, d \in GivenDates, t \in Decimals, p \in DOMAIN products :
              (CreateOrder(c, d, t, p) /\ t.whole <= 99999999 /\ t.frac <= 99)
                  => (last'.result = "ok" /\ orders'[seq.order].total = t)

\* C10: an insert of a Product whose price, or of an Order whose total, is
\* within 10 digits with 2 fractional is accepted and stored as given, the
\* negative ones included.
C10_NegativeAccepted == [][NegativeAmountsStored]_vars

\* C10 witness: a stored Product with a negative price and a stored Order
\* with a negative total.
C10_Witness ==
    /\ \E p \in DOMAIN products : IsNegative(products[p].price)
    /\ \E o \in DOMAIN orders : IsNegative(orders[o].total)

====
